---- MODULE Spec2Model ----
(***************************************************************************)
(* Model of the markdown export servers: the line-oriented markdown-to-    *)
(* HTML renderer of export-api-v2.py (markdown_to_html) and the do_POST    *)
(* handlers of export-api-v2.py, export-api.py and download-server.py.     *)
(*                                                                         *)
(* Text is a sequence of one-character strings, so that escaping,          *)
(* splitting, prefix tests and slicing are computed character by           *)
(* character as Python's str methods compute them.  The fixed parts of the *)
(* document template are single multi-character elements, which no input   *)
(* character can equal.                                                    *)
(***************************************************************************)
EXTENDS Integers, Sequences, FiniteSets, TLC

VARIABLES
    \* ---- markdown_to_html(markdown, title) --------------------------------
    markdown,          \* the markdown argument
    title,             \* the title argument
    html,              \* local `html`: escaped text, later the joined blocks
    lines,             \* local `lines`
    formatted_lines,   \* local `formatted_lines`
    idx,               \* number of lines the for loop has consumed
    result,            \* the returned document
    rpc,               \* position inside markdown_to_html
    \* ---- do_POST of the three servers -------------------------------------
    variant,           \* which server handles the request
    req,               \* the request being handled
    hpc,               \* position inside do_POST
    responses,         \* statuses passed to send_response / send_error, in order
    files,             \* temp files of this request that exist on disk
    attempts,          \* conversion attempts made for this request
    calls,             \* renderer / converter methods invoked for this request
    outcome            \* how the conversion attempt of this request ended

rvars == <<markdown, title, html, lines, formatted_lines, idx, result, rpc>>
svars == <<variant, req, hpc, responses, files, attempts, calls, outcome>>
vars == <<markdown, title, html, lines, formatted_lines, idx, result, rpc,
          variant, req, hpc, responses, files, attempts, calls, outcome>>

----------------------------------------------------------------------------
(* Bounds and input sets                                                   *)

\* Longest markdown input, counted in chunks of Tokens.
MaxChunks == 3

\* Flattening of a sequence of texts.
RECURSIVE Flatten(_)
Flatten(ss) == IF ss = <<>> THEN <<>> ELSE Head(ss) \o Flatten(Tail(ss))

\* The chunks inputs are built from: every character the renderer treats
\* specially, one ordinary character, and the block markers.
Tokens ==
    { <<"#">>, <<" ">>, <<"-">>, <<"a">>, <<"&">>, <<"<">>, <<">">>, <<"\n">>,
      <<"\t">>,
      <<"#", "#", "#", "#", " ">>, <<"#", "#", "#", " ">>, <<"#", "#", " ">>,
      <<"-", "-", "-">> }

\* The literal inputs named by the renderer's test properties.
Examples ==
    { <<"A", "\n", "\n", "B">>,
      <<"#", "#", "#", "#", " ", "D", "e", "e", "p">>,
      <<"<", "s", "c", "r", "i", "p", "t", ">">>,
      <<" ", "-", "-", "-", " ">>,
      <<"#", " ", "<", "s", "c", "r", "i", "p", "t", ">">> }

Markdowns ==
    Examples \cup
    { Flatten(ts) : ts \in UNION { [1..n -> Tokens] : n \in 0..MaxChunks } }

\* The title do_POST passes (shortened), and titles with special characters.
ExportTitle == <<"E", "x", "p", "o", "r", "t">>
Titles ==
    { ExportTitle,
      <<"a", "&", "b">>,
      <<"<", "t", ">">> }

----------------------------------------------------------------------------
(* Python str helpers                                                      *)

\* str.replace(old, new) for a one-character `old`.
RECURSIVE Replace(_, _, _)
Replace(s, old, new) ==
    IF s = <<>> THEN <<>>
    ELSE (IF Head(s) = old THEN new ELSE <<Head(s)>>) \o Replace(Tail(s), old, new)

\* A variant that behaves as str.splitlines(): no piece after a final
\* separator, and no piece at all for the empty text.
RECURSIVE SplitLinesLike(_, _)
SplitLinesLike(s, sep) ==
    IF s = <<>> THEN <<>>
    ELSE IF Head(s) = sep THEN << <<>> >> \o SplitLinesLike(Tail(s), sep)
    ELSE LET r == SplitLinesLike(Tail(s), sep)
         IN  IF r = <<>> THEN << <<Head(s)>> >>
             ELSE << <<Head(s)>> \o Head(r) >> \o Tail(r)

\* str.split('\n'): one more piece than there are separators, empty pieces kept.
RECURSIVE Split(_, _)
Split(s, sep) ==
    IF s = <<>> THEN << <<>> >>
    ELSE IF Head(s) = sep THEN << <<>> >> \o Split(Tail(s), sep)
    ELSE LET r == Split(Tail(s), sep)
         IN  << <<Head(s)>> \o Head(r) >> \o Tail(r)

\* str.startswith(prefix)
StartsWith(s, prefix) ==
    Len(s) >= Len(prefix) /\ SubSeq(s, 1, Len(prefix)) = prefix

\* s[n:]
SliceFrom(s, n) == SubSeq(s, n + 1, Len(s))

\* The characters str.strip() removes (those of them the model's inputs use).
Whitespace == {" ", "\t", "\n", "\r", "\f"}

RECURSIVE LStrip(_)
LStrip(s) ==
    IF s # <<>> /\ Head(s) \in Whitespace THEN LStrip(Tail(s)) ELSE s

RECURSIVE RStrip(_)
RStrip(s) ==
    IF s # <<>> /\ s[Len(s)] \in Whitespace THEN RStrip(SubSeq(s, 1, Len(s) - 1)) ELSE s

\* str.strip()
Strip(s) == RStrip(LStrip(s))

\* sep.join(parts)
RECURSIVE Join(_, _)
Join(parts, sep) ==
    IF parts = <<>> THEN <<>>
    ELSE IF Len(parts) = 1 THEN parts[1]
    ELSE parts[1] \o sep \o Join(Tail(parts), sep)

----------------------------------------------------------------------------
(* markdown_to_html                                                        *)

AMP == <<"&", "a", "m", "p", ";">>
LT  == <<"&", "l", "t", ";">>
GT  == <<"&", "g", "t", ";">>

\* A variant that escapes < and > before &.
EscapeHtmlAmpLast(text) ==
    Replace(Replace(Replace(text, "<", LT), ">", GT), "&", AMP)

\* A variant that escapes & only.
EscapeHtmlAmpOnly(text) == Replace(text, "&", AMP)

\* markdown.replace('&', '&amp;').replace('<', '&lt;').replace('>', '&gt;')
EscapeHtml(text) ==
    Replace(Replace(Replace(text, "&", AMP), "<", LT), ">", GT)

Tag(name) == <<"<">> \o name \o <<">">>
EndTag(name) == <<"<", "/">> \o name \o <<">">>
Element(name, content) == Tag(name) \o content \o EndTag(name)

H4Marker == <<"#", "#", "#", "#", " ">>
H3Marker == <<"#", "#", "#", " ">>
H2Marker == <<"#", "#", " ">>
H1Marker == <<"#", " ">>
HrLine   == <<"-", "-", "-">>

\* A variant whose level-1 test is startswith('#'), tried first.
FormatLineHashFirst(line) ==
    IF StartsWith(line, <<"#">>) THEN Element(<<"h", "1">>, SliceFrom(line, 2))
    ELSE IF Strip(line) = HrLine THEN Tag(<<"h", "r">>)
    ELSE IF Strip(line) # <<>> THEN Element(<<"p">>, line)
    ELSE Tag(<<"b", "r">>)

\* A variant that compares the untrimmed line with '---' and tests the
\* untrimmed line for emptiness.
FormatLineNoStrip(line) ==
    IF StartsWith(line, H4Marker) THEN Element(<<"h", "4">>, SliceFrom(line, 5))
    ELSE IF StartsWith(line, H3Marker) THEN Element(<<"h", "3">>, SliceFrom(line, 4))
    ELSE IF StartsWith(line, H2Marker) THEN Element(<<"h", "2">>, SliceFrom(line, 3))
    ELSE IF StartsWith(line, H1Marker) THEN Element(<<"h", "1">>, SliceFrom(line, 2))
    ELSE IF line = HrLine THEN Tag(<<"h", "r">>)
    ELSE IF line # <<>> THEN Element(<<"p">>, line)
    ELSE Tag(<<"b", "r">>)

\* The body of the for loop: the if / elif chain over one line.
FormatLine(line) ==
    IF StartsWith(line, H4Marker) THEN Element(<<"h", "4">>, SliceFrom(line, 5))
    ELSE IF StartsWith(line, H3Marker) THEN Element(<<"h", "3">>, SliceFrom(line, 4))
    ELSE IF StartsWith(line, H2Marker) THEN Element(<<"h", "2">>, SliceFrom(line, 3))
    ELSE IF StartsWith(line, H1Marker) THEN Element(<<"h", "1">>, SliceFrom(line, 2))
    ELSE IF Strip(line) = HrLine THEN Tag(<<"h", "r">>)
    ELSE IF Strip(line) # <<>> THEN Element(<<"p">>, line)
    ELSE Tag(<<"b", "r">>)

\* The fixed parts of the returned f-string (the stylesheet is constant text).
DocHead == << "<!DOCTYPE html>\n<html>\n<head>\n    <meta charset=\"UTF-8\">\n", "    <title>" >>
DocMid  == << "</title>\n", "    <style>...</style>\n</head>\n", "<body>\n" >>
DocTail == << "\n</body>", "\n</html>" >>

\* A variant that entity-escapes the title as well.
TemplateEscapedTitle(t, body) == DocHead \o EscapeHtml(t) \o DocMid \o body \o DocTail

\* return f'''...<title>{title}</title>...<body>\n{html}\n</body>\n</html>'''
Template(t, body) == DocHead \o t \o DocMid \o body \o DocTail

\* A variant of the loop body that skips blank lines (as convert_to_docx does).
LoopBodySkipBlank(ls, i) ==
    IF Strip(ls[i]) = <<>> THEN <<>> ELSE <<FormatLine(ls[i])>>

\* A variant of the loop body that carries state across lines: a blank line
\* that follows a blank line is collapsed into an empty block.
LoopBodyCollapse(ls, i) ==
    IF i > 1 /\ Strip(ls[i]) = <<>> /\ Strip(ls[i - 1]) = <<>>
    THEN << <<>> >>
    ELSE <<FormatLine(ls[i])>>

\* One iteration of `for line in lines`: what it appends to formatted_lines.
LoopBody(ls, i) == <<FormatLine(ls[i])>>

\* The whole loop, from iteration i on.
RECURSIVE FormatFrom(_, _)
FormatFrom(ls, i) ==
    IF i > Len(ls) THEN <<>> ELSE LoopBody(ls, i) \o FormatFrom(ls, i + 1)

\* The whole function, as do_POST calls it.
MarkdownToHtml(m, t) ==
    Template(t, Join(FormatFrom(Split(EscapeHtml(m), "\n"), 1), <<"\n">>))

----------------------------------------------------------------------------
(* The renderer as a state machine: a direct call markdown_to_html(m, t)   *)

NoRequest == [path |-> "none", body |-> "none", md |-> "none", text |-> <<>>, format |-> "none"]

ServerIdle ==
    /\ variant = "none"
    /\ req = NoRequest
    /\ hpc = "idle"
    /\ responses = <<>>
    /\ files = {}
    /\ attempts = 0
    /\ calls = {}
    /\ outcome = "none"

InitRender ==
    /\ markdown \in Markdowns
    /\ title \in Titles
    /\ html = <<>>
    /\ lines = <<>>
    /\ formatted_lines = <<>>
    /\ idx = 0
    /\ result = <<>>
    /\ rpc = "start"
    /\ ServerIdle

\* line 29
Escape ==
    /\ rpc = "start"
    /\ html' = EscapeHtml(markdown)
    /\ rpc' = "escaped"
    /\ UNCHANGED <<markdown, title, lines, formatted_lines, idx, result>>
    /\ UNCHANGED svars

\* lines 32-33
SplitLines ==
    /\ rpc = "escaped"
    /\ lines' = Split(html, "\n")
    /\ formatted_lines' = <<>>
    /\ idx' = 0
    /\ rpc' = "loop"
    /\ UNCHANGED <<markdown, title, html, result>>
    /\ UNCHANGED svars

\* lines 35-50, one iteration
LoopStep ==
    /\ rpc = "loop"
    /\ idx < Len(lines)
    /\ formatted_lines' = formatted_lines \o LoopBody(lines, idx + 1)
    /\ idx' = idx + 1
    /\ UNCHANGED <<markdown, title, html, lines, result, rpc>>
    /\ UNCHANGED svars

\* line 52
JoinBlocks ==
    /\ rpc = "loop"
    /\ idx = Len(lines)
    /\ html' = Join(formatted_lines, <<"\n">>)
    /\ rpc' = "joined"
    /\ UNCHANGED <<markdown, title, lines, formatted_lines, idx, result>>
    /\ UNCHANGED svars

\* lines 54-91
Return ==
    /\ rpc = "joined"
    /\ result' = Template(title, html)
    /\ rpc' = "done"
    /\ UNCHANGED <<markdown, title, html, lines, formatted_lines, idx>>
    /\ UNCHANGED svars

NextRender == Escape \/ SplitLines \/ LoopStep \/ JoinBlocks \/ Return

SpecRender == InitRender /\ [][NextRender]_vars

----------------------------------------------------------------------------
(* do_POST of the three servers                                            *)
(*                                                                         *)
(* HTTPServer handles one request at a time, so a handler runs from        *)
(* Receive to its return without interleaving.  hpc = "returned" is a      *)
(* normal return of do_POST, hpc = "raised" an exception leaving do_POST   *)
(* (socketserver then drops the connection without a response).            *)

Variants == {"export-api-v2", "export-api", "download-server"}

\* The servers that shell out to convert-export.sh.
ScriptBased(v) == v \in {"export-api", "download-server"}

\* Markdown texts a request may carry.
ReqMarkdowns == { <<"a">>, <<"#", " ", "a", "\n", "<", "b", ">">> }

\* path: the convert endpoint or any other path.
\* body: no usable Content-Length header, bytes that are not JSON, JSON that
\*       is not an object, or a JSON object.
\* md:   the object's markdown field is missing, the empty string, a string
\*       (text), or a non-empty value that is not a string.
\* format: the object's format field (missing means the default 'pdf').
Requests ==
    { [path |-> pa, body |-> b, md |-> m, text |-> t, format |-> f] :
        pa \in {"convert", "other"},
        b \in {"nolength", "badjson", "nonobject", "object"},
        m \in {"missing", "empty", "text", "nonstring"},
        t \in ReqMarkdowns \cup {<<>>},
        f \in {"missing", "pdf", "docx", "txt"} }

WellFormed(r) ==
    /\ (r.md = "text") = (r.text # <<>>)
    /\ r.body # "object" => (r.md = "missing" /\ r.format = "missing")

\* data.get('format', 'pdf')
FormatType(r) == IF r.format = "missing" THEN "pdf" ELSE r.format

\* A variant of the validation that rejects only a missing field's default
\* by identity and lets the empty string through.
NoMarkdownMissingOnly(r) == r.md = "missing"

\* markdown = data.get('markdown', ''); if not markdown
NoMarkdown(r) == r.md \in {"missing", "empty"}

\* Whether the statements that read and parse the request body are inside the
\* handler's try block: download-server.py parses before its try.
ParseCaught(v) == v # "download-server"

\* A variant of the result test that looks at the output file only.
ScriptFailedOutputOnly(v, rc, exists) == ~exists

\* export-api.py: result.returncode != 0 or not os.path.exists(output_file)
\* download-server.py: result.returncode != 0
ScriptFailed(v, rc, exists) ==
    IF v = "export-api" THEN rc # 0 \/ ~exists ELSE rc # 0

\* except Exception as e: self.send_error(500, str(e)), after which do_POST returns.
Except500 ==
    /\ responses' = Append(responses, 500)
    /\ hpc' = "returned"

InitServer ==
    /\ markdown = <<>>
    /\ title = <<>>
    /\ html = <<>>
    /\ lines = <<>>
    /\ formatted_lines = <<>>
    /\ idx = 0
    /\ result = <<>>
    /\ rpc = "idle"
    /\ ServerIdle

\* A POST request arrives at one of the servers (serve_forever).
Receive ==
    /\ hpc \in {"idle", "returned", "raised"}
    /\ \E v \in Variants, r \in Requests :
        /\ WellFormed(r)
        /\ variant' = v
        /\ req' = r
    /\ hpc' = "received"
    /\ responses' = <<>>
    /\ files' = {}
    /\ attempts' = 0
    /\ calls' = {}
    /\ outcome' = "none"
    /\ markdown' = <<>>
    /\ title' = <<>>
    /\ result' = <<>>
    /\ UNCHANGED <<html, lines, formatted_lines, idx, rpc>>

\* do_POST up to the validation of the markdown field:
\* export-api-v2.py 167-185, export-api.py 28-39, download-server.py 146-156.
Parse ==
    /\ hpc = "received"
    /\ \/ /\ req.path = "other"                       \* else: self.send_error(404)
          /\ responses' = Append(responses, 404)
          /\ hpc' = "returned"
       \/ /\ req.path = "convert"
          /\ req.body = "nolength"                    \* int(None) raises before any try
          /\ hpc' = "raised"
          /\ UNCHANGED responses
       \/ /\ req.path = "convert"
          /\ req.body \in {"badjson", "nonobject"}    \* json.loads / data.get raises
          /\ IF ParseCaught(variant)
             THEN Except500
             ELSE hpc' = "raised" /\ UNCHANGED responses
       \/ /\ req.path = "convert"
          /\ req.body = "object"
          /\ IF NoMarkdown(req)
             THEN /\ responses' = Append(responses, 400)
                  /\ hpc' = "returned"
             ELSE /\ hpc' = "validated"
                  /\ UNCHANGED responses
    /\ UNCHANGED <<variant, req, files, attempts, calls, outcome>>
    /\ UNCHANGED rvars

\* export-api-v2.py 187-202: the file name, the format dispatch.
PrepareV2 ==
    /\ hpc = "validated"
    /\ variant = "export-api-v2"
    /\ \/ /\ req.md = "nonstring"                     \* markdown.encode() raises
          /\ Except500
       \/ /\ req.md # "nonstring"
          /\ FormatType(req) \notin {"pdf", "docx"}   \* Unsupported format
          /\ responses' = Append(responses, 400)
          /\ hpc' = "returned"
       \/ /\ req.md # "nonstring"
          /\ FormatType(req) \in {"pdf", "docx"}
          /\ hpc' = "ready"
          /\ UNCHANGED responses
    /\ UNCHANGED <<variant, req, files, attempts, calls, outcome>>
    /\ UNCHANGED rvars

\* export-api.py 41-55, download-server.py 158-166: the markdown is written
\* to the temp .md file.
PrepareScript ==
    /\ hpc = "validated"
    /\ ScriptBased(variant)
    /\ \/ /\ req.md = "nonstring"
          /\ variant = "export-api"                   \* markdown.encode() raises
          /\ Except500
          /\ UNCHANGED <<files, calls>>
       \/ /\ req.md = "nonstring"
          /\ variant = "download-server"              \* f.write raises, file exists
          /\ files' = files \cup {"md"}
          /\ calls' = calls \cup {"write_temp"}
          /\ Except500
       \/ /\ req.md # "nonstring"
          /\ files' = files \cup {"md"}
          /\ calls' = calls \cup {"write_temp"}
          /\ hpc' = "ready"
          /\ UNCHANGED responses
    /\ UNCHANGED <<variant, req, attempts, outcome>>
    /\ UNCHANGED rvars

\* export-api-v2.py 193-196 with convert_to_pdf (93-121): the HTML is
\* rendered and posted to Gotenberg once; a failure is re-raised and caught
\* by do_POST.
ConvertPdf ==
    /\ hpc = "ready"
    /\ variant = "export-api-v2"
    /\ FormatType(req) = "pdf"
    /\ markdown' = req.text
    /\ title' = ExportTitle
    /\ result' = MarkdownToHtml(req.text, ExportTitle)
    /\ calls' = calls \cup {"markdown_to_html", "convert_to_pdf"}
    /\ attempts' = attempts + 1
    /\ \/ /\ outcome' = "ok"                          \* response.read()
          /\ hpc' = "converted"
          /\ UNCHANGED responses
       \/ /\ outcome' = "gotenberg_raised"            \* urlopen raises
          /\ Except500
    /\ UNCHANGED <<variant, req, files>>
    /\ UNCHANGED <<html, lines, formatted_lines, idx, rpc>>

\* export-api-v2.py 197-199 with convert_to_docx (123-163).
ConvertDocx ==
    /\ hpc = "ready"
    /\ variant = "export-api-v2"
    /\ FormatType(req) = "docx"
    /\ calls' = calls \cup {"convert_to_docx"}
    /\ attempts' = attempts + 1
    /\ \/ /\ outcome' = "ok"
          /\ hpc' = "converted"
          /\ UNCHANGED responses
       \/ /\ outcome' = "docx_missing"                \* ImportError
          /\ Except500
    /\ UNCHANGED <<variant, req, files>>
    /\ UNCHANGED rvars

\* export-api.py 57-70, download-server.py 168-180: the script runs once;
\* its exit status is rc, and it may or may not leave the output file.
RunScript ==
    /\ hpc = "ready"
    /\ ScriptBased(variant)
    /\ calls' = calls \cup {"script"}
    /\ attempts' = attempts + 1
    /\ \/ /\ outcome' = "script_raised"               \* subprocess.run raises
          /\ Except500
          /\ UNCHANGED files
       \/ \E rc \in {0, 1}, exists \in BOOLEAN :
            /\ files' = IF exists THEN files \cup {"out"} ELSE files
            /\ outcome' = IF rc # 0 THEN "script_nonzero"
                          ELSE IF ~exists THEN "script_no_output"
                          ELSE "ok"
            /\ IF ScriptFailed(variant, rc, exists)
               THEN /\ responses' = Append(responses, 500)     \* send_error, return
                    /\ hpc' = "returned"
               ELSE IF ~exists
               THEN Except500                                  \* open(output_file) raises
               ELSE /\ hpc' = "converted"
                    /\ UNCHANGED responses
    /\ UNCHANGED <<variant, req>>
    /\ UNCHANGED rvars

\* export-api-v2.py 204-213, export-api.py 72-84, download-server.py 182-191:
\* the 200 status and headers, then the body; the write may raise.
Send ==
    /\ hpc = "converted"
    /\ \/ /\ responses' = Append(responses, 200)
          /\ hpc' = IF ScriptBased(variant) THEN "sent" ELSE "returned"
       \/ /\ responses' = Append(Append(responses, 200), 500)  \* wfile.write raises
          /\ hpc' = "returned"
    /\ UNCHANGED <<variant, req, files, attempts, calls, outcome>>
    /\ UNCHANGED rvars

\* export-api.py 86-91 (errors swallowed), download-server.py 193-195.
Cleanup ==
    /\ hpc = "sent"
    /\ \/ /\ files' = {}                              \* both unlinks succeed
          /\ hpc' = "returned"
          /\ UNCHANGED responses
       \/ \E left \in {{"md", "out"}, {"out"}} :      \* the first or second unlink raises
            /\ files' = left
            /\ IF variant = "export-api"
               THEN hpc' = "returned" /\ UNCHANGED responses   \* except: pass
               ELSE Except500
    /\ UNCHANGED <<variant, req, attempts, calls, outcome>>
    /\ UNCHANGED rvars

NextServer ==
    \/ Receive
    \/ Parse
    \/ PrepareV2
    \/ PrepareScript
    \/ ConvertPdf
    \/ ConvertDocx
    \/ RunScript
    \/ Send
    \/ Cleanup

SpecServer == InitServer /\ [][NextServer]_vars

----------------------------------------------------------------------------
(* Vocabulary of the renderer's properties                                 *)

CountChar(s, c) == Cardinality({i \in 1..Len(s) : s[i] = c})

Contains(s, sub) ==
    \E i \in 0..(Len(s) - Len(sub)) : SubSeq(s, i + 1, i + Len(sub)) = sub

\* The part of a document between two elements of the template.
Between(doc, open, close) ==
    LET i == CHOOSE n \in 1..Len(doc) : doc[n] = open
        j == CHOOSE n \in 1..Len(doc) : doc[n] = close
    IN  SubSeq(doc, i + 1, j - 1)

BodyOf(doc) == Between(doc, "<body>\n", "\n</body>")
TitleOf(doc) == Between(doc, "    <title>", "</title>\n")

\* The lines of the markdown argument itself.
RawLines == Split(markdown, "\n")

\* The renderer has returned.
Rendered == rpc = "done"

\* k hash characters followed by a space.
Marker(k) == [i \in 1..(k + 1) |-> IF i <= k THEN "#" ELSE " "]
HeadingName(k) == <<"h", CASE k = 1 -> "1" [] k = 2 -> "2" [] k = 3 -> "3" [] k = 4 -> "4">>

\* The seven classes, each stated on its own (no priority among them).
IsHeading(k, line) == StartsWith(line, Marker(k))
IsAnyHeading(line) == \E k \in 1..4 : IsHeading(k, line)
IsRule(line) == Strip(line) = HrLine
IsBlank(line) == Strip(line) = <<>>
ClassesOf(line) ==
    { <<"h", k>> : k \in {n \in 1..4 : IsHeading(n, line)} }
    \cup (IF IsRule(line) THEN {<<"hr", 0>>} ELSE {})
    \cup (IF IsBlank(line) THEN {<<"br", 0>>} ELSE {})
    \cup (IF ~IsAnyHeading(line) /\ ~IsRule(line) /\ ~IsBlank(line)
          THEN {<<"p", 0>>} ELSE {})

\* The block a class stands for.
BlockOf(class, line) ==
    CASE class[1] = "h"  -> Element(HeadingName(class[2]), SliceFrom(line, class[2] + 1))
      [] class[1] = "hr" -> Tag(<<"h", "r">>)
      [] class[1] = "br" -> Tag(<<"b", "r">>)
      [] class[1] = "p"  -> Element(<<"p">>, line)

\* Number of tags the renderer writes for a line of a class.
TagsOf(class) == IF class[1] \in {"hr", "br"} THEN 1 ELSE 2

RECURSIVE TagsWritten(_)
TagsWritten(ls) ==
    IF ls = <<>> THEN 0
    ELSE TagsOf(CHOOSE c \in ClassesOf(Head(ls)) : TRUE) + TagsWritten(Tail(ls))

\* Escaping one character at a time, each character once.
EscapeChar(c) ==
    CASE c = "&" -> AMP [] c = "<" -> LT [] c = ">" -> GT [] OTHER -> <<c>>
EscapeEach(s) == Flatten([i \in 1..Len(s) |-> EscapeChar(s[i])])

BlockNames == {<<"h", "1">>, <<"h", "2">>, <<"h", "3">>, <<"h", "4">>,
               <<"h", "r">>, <<"p">>, <<"b", "r">>}

----------------------------------------------------------------------------
(* Properties of markdown_to_html                                          *)

\* C1: markdown_to_html emits exactly one block per line of the markdown
\* (split on line-feed), block i is the rendering of line i, and the body of
\* the document is these blocks in that order; "A\n\nB" gives <p>A</p>, <br>,
\* <p>B</p>.
C1_OneBlockPerLineInOrder ==
    Rendered =>
        LET raw == RawLines
        IN  /\ Len(formatted_lines) = CountChar(markdown, "\n") + 1
            /\ Len(formatted_lines) = Len(raw)
            /\ \A i \in 1..Len(raw) :
                   formatted_lines[i] = FormatLine(EscapeHtml(raw[i]))
            /\ Split(BodyOf(result), "\n") = formatted_lines
            /\ markdown = <<"A", "\n", "\n", "B">> =>
                   formatted_lines = << <<"<", "p", ">", "A", "<", "/", "p", ">">>,
                                        <<"<", "b", "r", ">">>,
                                        <<"<", "p", ">", "B", "<", "/", "p", ">">> >>

C1_Witness ==
    /\ rpc = "done"
    /\ markdown = <<"A", "\n", "\n", "B">>
    /\ Len(formatted_lines) = 3

\* C2 as stated: for the empty markdown the body holds no block element.
C2_EmptyInputNoBlocks ==
    (rpc = "done" /\ markdown = <<>>) =>
        \A n \in BlockNames : ~Contains(BodyOf(result), Tag(n))

\* C2 as amended: the empty markdown is one empty line, so the body holds
\* exactly one block, the line break <br>.
C2_EmptyInputOneBreak ==
    (rpc = "done" /\ markdown = <<>>) =>
        /\ formatted_lines = << <<"<", "b", "r", ">">> >>
        /\ BodyOf(result) = <<"<", "b", "r", ">">>

C2_Witness == rpc = "done" /\ markdown = <<>> /\ result # <<>>

\* C3: the text is entity-escaped exactly once: every &, < and > of the input
\* becomes &amp;, &lt;, &gt; and the & of an inserted entity is not escaped
\* again.
C3_EscapedExactlyOnce ==
    rpc = "escaped" =>
        /\ html = EscapeEach(markdown)
        /\ CountChar(html, "&") =
               CountChar(markdown, "&") + CountChar(markdown, "<") + CountChar(markdown, ">")
        /\ (markdown = <<"&">> => html = <<"&", "a", "m", "p", ";">>)

C3_Witness ==
    /\ rpc = "escaped"
    /\ CountChar(markdown, "&") > 0
    /\ CountChar(markdown, "<") > 0
    /\ html # markdown

\* C4: no < or > of the input is a literal character of the body: the only
\* < and > in the body are those of the block tags the renderer writes, and
\* <script> appears as &lt;script&gt;.
C4_NoInputMarkupInBody ==
    rpc = "done" =>
        /\ CountChar(BodyOf(result), "<") = TagsWritten(lines)
        /\ CountChar(BodyOf(result), ">") = TagsWritten(lines)
        /\ Contains(markdown, <<"<", "s", "c", "r", "i", "p", "t", ">">>) =>
               /\ ~Contains(BodyOf(result), <<"<", "s", "c", "r", "i", "p", "t", ">">>)
               /\ Contains(BodyOf(result),
                           <<"&", "l", "t", ";", "s", "c", "r", "i", "p", "t", "&", "g", "t", ";">>)

C4_Witness ==
    /\ rpc = "done"
    /\ markdown = <<"#", " ", "<", "s", "c", "r", "i", "p", "t", ">">>
    /\ Contains(BodyOf(result), <<"&", "l", "t", ";">>)

\* C5: a line starting with k hash characters and a space (k in 1..4) is
\* rendered as <hk>content</hk>, content being the rest of the line after
\* the marker, and as no heading of another level; "#### Deep" gives
\* <h4>Deep</h4> and no <h1>.
C5_HeadingLevel ==
    Rendered =>
        LET raw == RawLines
        IN  /\ Len(formatted_lines) = Len(raw)
            /\ \A i \in 1..Len(raw) : \A k \in 1..4 :
                   IsHeading(k, raw[i]) =>
                       /\ formatted_lines[i] =
                              Element(HeadingName(k), EscapeHtml(SliceFrom(raw[i], k + 1)))
                       /\ \A j \in (1..4) \ {k} :
                              ~StartsWith(formatted_lines[i], Tag(HeadingName(j)))
            /\ markdown = <<"#", "#", "#", "#", " ", "D", "e", "e", "p">> =>
                   /\ formatted_lines =
                          << <<"<", "h", "4", ">", "D", "e", "e", "p", "<", "/", "h", "4", ">">> >>
                   /\ ~Contains(BodyOf(result), <<"<", "h", "1", ">">>)

C5_Witness ==
    /\ rpc = "done"
    /\ markdown = <<"#", "#", "#", "#", " ", "D", "e", "e", "p">>
    /\ Contains(BodyOf(result), <<"<", "h", "4", ">">>)

\* C6: a line that is no heading and whose trimmed form is --- is rendered as
\* the bare block <hr>; any other non-heading line with non-whitespace
\* content is not rendered as <hr>.
C6_HorizontalRule ==
    Rendered =>
        LET raw == RawLines
        IN  /\ Len(formatted_lines) = Len(raw)
            /\ \A i \in 1..Len(raw) :
                   ~IsAnyHeading(raw[i]) =>
                       /\ Strip(raw[i]) = HrLine =>
                              formatted_lines[i] = <<"<", "h", "r", ">">>
                       /\ (Strip(raw[i]) # HrLine /\ Strip(raw[i]) # <<>>) =>
                              /\ formatted_lines[i] # <<"<", "h", "r", ">">>
                              /\ ~Contains(formatted_lines[i], <<"<", "h", "r", ">">>)

C6_Witness ==
    /\ rpc = "done"
    /\ markdown = <<" ", "-", "-", "-", " ">>
    /\ BodyOf(result) = <<"<", "h", "r", ">">>

\* C7: classification is total and a partition: every line is in exactly one
\* of the seven classes and is rendered as that class's block, the renderer
\* never stops before returning, and the block of a line depends on that line
\* alone.
C7_TotalPartitionPerLine ==
    /\ \/ rpc \in {"start", "escaped", "joined", "done"}
       \/ rpc = "loop" /\ idx <= Len(lines) /\ Len(formatted_lines) = idx
    /\ Rendered =>
        /\ Len(formatted_lines) = Len(lines)
        /\ \A i \in 1..Len(lines) :
               /\ Cardinality(ClassesOf(lines[i])) = 1
               /\ \A c \in ClassesOf(lines[i]) : formatted_lines[i] = BlockOf(c, lines[i])
        /\ \A i, j \in 1..Len(lines) :
               lines[i] = lines[j] => formatted_lines[i] = formatted_lines[j]

C7_Witness ==
    /\ rpc = "done"
    /\ Len(lines) = 3
    /\ lines[1] = lines[3]
    /\ lines[2] # lines[1]
    /\ formatted_lines[1] = formatted_lines[3]

\* C8: the title is put into the <title> element as given, without entity
\* escaping.
C8_TitleVerbatim ==
    rpc = "done" => TitleOf(result) = title

C8_Witness ==
    /\ rpc = "done"
    /\ CountChar(title, "<") > 0
    /\ TitleOf(result) # EscapeHtml(title)

----------------------------------------------------------------------------
(* Properties of do_POST                                                   *)

\* The handler has finished with the request.
Finished == hpc \in {"returned", "raised"}

\* C9: in every server, a POST to the convert endpoint whose JSON object has
\* a missing or empty markdown field is answered with 400 and nothing else:
\* no temp file is written, no script is run, no renderer or converter is
\* called.
C9_EmptyMarkdownRejected ==
    (req.path = "convert" /\ req.body = "object" /\ req.md \in {"missing", "empty"}) =>
        /\ hpc \in {"received", "returned"}
        /\ files = {}
        /\ attempts = 0
        /\ calls = {}
        /\ outcome = "none"
        /\ hpc = "returned" => responses = <<400>>

C9_Witness ==
    /\ hpc = "returned"
    /\ variant = "download-server"
    /\ req.path = "convert"
    /\ req.md = "empty"
    /\ responses = <<400>>

\* C10: when the Gotenberg request raises, python-docx is missing or the
\* script exits non-zero, the handler has made exactly one conversion attempt
\* and answers 500, never 200; no handler makes a second attempt.
C10_DependencyFailureReported ==
    /\ attempts <= 1
    /\ (Finished /\ outcome \in {"gotenberg_raised", "docx_missing", "script_nonzero"}) =>
        /\ hpc = "returned"
        /\ attempts = 1
        /\ responses = <<500>>

C10_Witness ==
    /\ hpc = "returned"
    /\ variant = "export-api-v2"
    /\ outcome = "gotenberg_raised"
    /\ attempts = 1
    /\ responses = <<500>>

\* C11: in the script-based servers every temp file the request created (the
\* .md input and the converted output) is deleted by the time the handler
\* returns, on every path.
C11_TempFilesDeleted ==
    (ScriptBased(variant) /\ Finished) => files = {}

\* C12: every POST request do_POST handles to its return produces exactly
\* one response status, one of 200, 400, 404, 500; once the 200 has been sent
\* no second response follows.
C12_ExactlyOneResponse ==
    /\ hpc = "returned" =>
        /\ Len(responses) = 1
        /\ responses[1] \in {200, 400, 404, 500}
    /\ \A i \in 1..Len(responses) : responses[i] = 200 => i = Len(responses)

====
